---- MODULE Spec2Model ----
(***************************************************************************)
(* Model of the Sierra libfunc specialization layer                        *)
(* (crates/sierra/src/extensions/lib_func.rs) and of the memory-management *)
(* family built on it (crates/sierra/src/extensions/core/mem.rs).          *)
(***************************************************************************)
EXTENDS Integers, Sequences, FiniteSets, TLC

VARIABLES phase, hierarchy, concrete_type_ids, declared, generic, concrete, call

vars == <<phase, hierarchy, concrete_type_ids, declared, generic, concrete, call>>

(***************************************************************************)
(* Bounds of the model.                                                    *)
(***************************************************************************)
MaxArgs == 2
MaxKeyArgs == 1
MaxDeclared == 2
MaxVars == 2
MaxCells == 2

SeqsUpTo(S, n) == UNION {[1..k -> S] : k \in 0..n}

(***************************************************************************)
(* Result / Option values.                                                 *)
(***************************************************************************)
Ok(v) == [ok |-> TRUE, value |-> v]
Err(e) == [ok |-> FALSE, error |-> e]
Some(v) == [some |-> TRUE, value |-> v]
None == [some |-> FALSE]

(***************************************************************************)
(* Identifiers and generic arguments.                                      *)
(***************************************************************************)
ConcreteTypeIds == {"felt", "NonZeroFelt"}
GenericTypeIds == {"felt", "NonZero"}
Type(ty) == [kind |-> "Type", ty |-> ty]
Value(v) == [kind |-> "Value", value |-> v]
Literals == {0}
GenericArgs == {Type(ty) : ty \in ConcreteTypeIds} \cup {Value(v) : v \in Literals}
ArgLists == SeqsUpTo(GenericArgs, MaxArgs)

(***************************************************************************)
(* SpecializationError, ExtensionError, InputError.                        *)
(***************************************************************************)
UnsupportedId == [kind |-> "UnsupportedId"]
UnsupportedGenericArg == [kind |-> "UnsupportedGenericArg"]
WrongNumberOfGenericArgs == [kind |-> "WrongNumberOfGenericArgs"]
TypeWasNotDeclared(id, args) == [kind |-> "TypeWasNotDeclared", id |-> id, args |-> args]
LibFuncSpecialization(libfunc_id, error) == [kind |-> "LibFuncSpecialization", libfunc_id |-> libfunc_id, error |-> error]
InputError == [kind |-> "InputError"]

(***************************************************************************)
(* SpecializationContext: lookups in the concrete-type map.                *)
(***************************************************************************)
EmptyMap == [k \in {} |-> "felt"]
Insert(m, key, cid) == [k \in (DOMAIN m) \cup {key} |-> IF k = key THEN cid ELSE m[k]]

get_concrete_type_ignoring_args(map, id, args) ==
    IF \E k \in DOMAIN map : k[1] = id
        THEN Ok(map[CHOOSE k \in DOMAIN map : k[1] = id])
        ELSE Err(TypeWasNotDeclared(id, args))

get_concrete_type(map, id, args) ==
    IF <<id, args>> \in DOMAIN map
        THEN Ok(map[<<id, args>>])
        ELSE Err(TypeWasNotDeclared(id, args))

get_wrapped_concrete_type(map, id, wrapped) == get_concrete_type(map, id, <<Type(wrapped)>>)

(***************************************************************************)
(* mem.rs: the memory-management families.                                 *)
(***************************************************************************)
as_single_type_first_arg(args) ==
    IF Len(args) >= 1 /\ args[1].kind = "Type"
        THEN Ok(args[1].ty)
        ELSE Err(UnsupportedGenericArg)

as_single_type(args) ==
    IF Len(args) = 1 /\ args[1].kind = "Type"
        THEN Ok(args[1].ty)
        ELSE Err(UnsupportedGenericArg)

\* `Ok(XConcrete { _ty: as_single_type(args)? })`
SingleTypeConcrete(struct, args) ==
    LET ty == as_single_type(args)
    IN  IF ty.ok THEN Ok([struct |-> struct, ty |-> ty.value]) ELSE ty

StoreTempGeneric_specialize_as_align_temps(context, args) == SingleTypeConcrete("AlignTempsConcrete", args)

StoreTempGeneric_specialize(context, args) == SingleTypeConcrete("StoreTempConcrete", args)
AlignTempsGeneric_specialize(context, args) == SingleTypeConcrete("AlignTempsConcrete", args)
StoreLocalGeneric_specialize(context, args) == SingleTypeConcrete("StoreLocalConcrete", args)
RenameGeneric_specialize(context, args) == SingleTypeConcrete("RenameConcrete", args)
MoveGeneric_specialize(context, args) == SingleTypeConcrete("MoveConcrete", args)

\* The zero-argument specialize of alloc_locals.
AllocLocalsGeneric_specialize(context) == Ok([struct |-> "AllocLocalsConcrete"])

(***************************************************************************)
(* lib_func.rs: NoGenericArgsGenericLibFunc => NamedLibFunc.               *)
(***************************************************************************)
NoGenericArgs_specialize_ignoring_args(context, args) == AllocLocalsGeneric_specialize(context)

NoGenericArgs_specialize(context, args) ==
    IF args = <<>>
        THEN AllocLocalsGeneric_specialize(context)
        ELSE Err(WrongNumberOfGenericArgs)

\* <Self as NamedLibFunc>::specialize for each family type.
NamedLibFunc_specialize(self, context, args) ==
    CASE self = "StoreTempGeneric" -> StoreTempGeneric_specialize(context, args)
      [] self = "AlignTempsGeneric" -> AlignTempsGeneric_specialize(context, args)
      [] self = "StoreLocalGeneric" -> StoreLocalGeneric_specialize(context, args)
      [] self = "AllocLocalsGeneric" -> NoGenericArgs_specialize(context, args)
      [] self = "RenameGeneric" -> RenameGeneric_specialize(context, args)
      [] self = "MoveGeneric" -> MoveGeneric_specialize(context, args)

(***************************************************************************)
(* lib_func.rs: NamedLibFunc => GenericLibFunc.  A family is the record of *)
(* its enum variant, its type and its ID constant.                         *)
(***************************************************************************)
Family(variant, type, id) == [variant |-> variant, type |-> type, ID |-> id]

NamedLibFunc_by_id_always(family, id) == Some(family.type)

NamedLibFunc_by_id(family, id) ==
    IF family.ID = id THEN Some(family.type) ELSE None

GenericLibFunc_specialize(self, context, args) == NamedLibFunc_specialize(self, context, args)

(***************************************************************************)
(* mem.rs: the MemExtension hierarchy.                                     *)
(***************************************************************************)
MemExtension ==
    << Family("StoreTemp", "StoreTempGeneric", "store_temp"),
       Family("AlignTemps", "AlignTempsGeneric", "align_temps"),
       Family("StoreLocal", "StoreLocalGeneric", "store_local"),
       Family("AllocLocals", "AllocLocalsGeneric", "alloc_locals"),
       Family("Rename", "RenameGeneric", "rename"),
       Family("Move", "MoveGeneric", "move") >>

\* The hierarchy macro takes any list of variants; it checks no uniqueness
\* of the families' ids.  Redeclared(i) is MemExtension with the family at
\* position i + 1 declared under the id of the family at position i.
Redeclared(i) ==
    [j \in DOMAIN MemExtension |->
        IF j = i + 1
            THEN Family(MemExtension[j].variant, MemExtension[j].type, MemExtension[i].ID)
            ELSE MemExtension[j]]

Hierarchies == {MemExtension} \cup {Redeclared(i) : i \in 1..(Len(MemExtension) - 1)}

\* The ids of the families, and one id that no family of the hierarchy owns.
LibFuncIds == {MemExtension[i].ID : i \in DOMAIN MemExtension} \cup {"felt_add"}

(***************************************************************************)
(* lib_func.rs: define_libfunc_hierarchy.                                  *)
(***************************************************************************)
RECURSIVE by_id_from(_, _, _)
by_id_from(h, i, id) ==
    IF i > Len(h) THEN None
    ELSE LET res == NamedLibFunc_by_id(h[i], id)
         IN  IF res.some
                THEN Some([variant |-> h[i].variant, value |-> res.value])
                ELSE by_id_from(h, i + 1, id)

RECURSIVE by_id_last_from(_, _, _)
by_id_last_from(h, i, id) ==
    IF i < 1 THEN None
    ELSE LET res == NamedLibFunc_by_id(h[i], id)
         IN  IF res.some
                THEN Some([variant |-> h[i].variant, value |-> res.value])
                ELSE by_id_last_from(h, i - 1, id)

Hierarchy_by_id_last_match(h, id) == by_id_last_from(h, Len(h), id)

Hierarchy_by_id(h, id) == by_id_from(h, 1, id)

Hierarchy_specialize_untagged(self, context, args) ==
    LET inner == GenericLibFunc_specialize(self.value, context, args)
    IN  IF inner.ok
            THEN Ok([variant |-> "StoreTemp", value |-> inner.value])
            ELSE inner

Hierarchy_specialize(self, context, args) ==
    LET inner == GenericLibFunc_specialize(self.value, context, args)
    IN  IF inner.ok
            THEN Ok([variant |-> self.variant, value |-> inner.value])
            ELSE inner

(***************************************************************************)
(* lib_func.rs: GenericLibFuncEx::specialize_by_id.                        *)
(***************************************************************************)
specialize_by_id_masking_error(h, context, libfunc_id, args) ==
    LET found == Hierarchy_by_id(h, libfunc_id)
    IN  IF ~found.some
            THEN Err(LibFuncSpecialization(libfunc_id, UnsupportedId))
            ELSE LET res == Hierarchy_specialize(found.value, context, args)
                 IN  IF res.ok THEN res
                     ELSE Err(LibFuncSpecialization(libfunc_id, UnsupportedId))

specialize_by_id(h, context, libfunc_id, args) ==
    LET found == Hierarchy_by_id(h, libfunc_id)
    IN  IF ~found.some
            THEN Err(LibFuncSpecialization(libfunc_id, UnsupportedId))
            ELSE LET res == Hierarchy_specialize(found.value, context, args)
                 IN  IF res.ok THEN res
                     ELSE Err(LibFuncSpecialization(libfunc_id, res.error))

(***************************************************************************)
(* The flat type lists each memory-management concrete libfunc supplies    *)
(* as a NonBranchConcreteLibFunc: the four pass-through operations take    *)
(* and return one variable of the recorded type, align_temps and           *)
(* alloc_locals take and return none.                                      *)
(***************************************************************************)
PassThroughStructs == {"StoreTempConcrete", "StoreLocalConcrete", "RenameConcrete", "MoveConcrete"}

NonBranch_input_types(self) ==
    IF self.struct \in PassThroughStructs THEN <<self.ty>> ELSE <<>>

NonBranch_output_types(self) ==
    IF self.struct \in PassThroughStructs THEN <<self.ty>> ELSE <<>>

(***************************************************************************)
(* lib_func.rs: NonBranchConcreteLibFunc => ConcreteLibFunc.               *)
(***************************************************************************)
ConcreteLibFunc_input_types(self) == NonBranch_input_types(self)

ConcreteLibFunc_output_types_per_type(self) ==
    [i \in DOMAIN NonBranch_output_types(self) |-> <<NonBranch_output_types(self)[i]>>]

ConcreteLibFunc_output_types(self) == <<NonBranch_output_types(self)>>

ConcreteLibFunc_fallthrough(self) == Some(0)

(***************************************************************************)
(* lib_func.rs: define_concrete_libfunc_hierarchy forwards every method to *)
(* the active variant.                                                     *)
(***************************************************************************)
MemConcrete_input_types(self) == ConcreteLibFunc_input_types(self.value)
MemConcrete_output_types(self) == ConcreteLibFunc_output_types(self.value)
MemConcrete_fallthrough(self) == ConcreteLibFunc_fallthrough(self.value)

(***************************************************************************)
(* Simulation helpers of the core extensions module.                       *)
(***************************************************************************)
CellValues == {0, 1}
Cells == SeqsUpTo(CellValues, MaxCells)
InputLists == SeqsUpTo(Cells, MaxVars)

\* unpack_inputs::<N>: exactly N input variables, or InputError.
unpack_inputs(N, inputs) ==
    IF Len(inputs) = N THEN Ok(inputs) ELSE Err(InputError)

\* single_cell_identity::<N>: the N input variables, passed through.
single_cell_identity(N, inputs) ==
    LET unpacked == unpack_inputs(N, inputs)
    IN  IF unpacked.ok THEN Ok(unpacked.value) ELSE unpacked

(***************************************************************************)
(* mem.rs: non_branch_simulate of each concrete libfunc.                   *)
(***************************************************************************)
StoreTempConcrete_non_branch_simulate_no_inputs(self, inputs) ==
    LET unpacked == unpack_inputs(0, inputs)
    IN  IF unpacked.ok THEN Ok(<<>>) ELSE unpacked

StoreTempConcrete_non_branch_simulate(self, inputs) == single_cell_identity(1, inputs)

AlignTempsConcrete_non_branch_simulate_unchecked(self, inputs) == Ok(<<>>)

\* `unpack_inputs::<0>(inputs)?; Ok(vec![])`
AlignTempsConcrete_non_branch_simulate(self, inputs) ==
    LET unpacked == unpack_inputs(0, inputs)
    IN  IF unpacked.ok THEN Ok(<<>>) ELSE unpacked

StoreLocalConcrete_non_branch_simulate(self, inputs) == single_cell_identity(1, inputs)

AllocLocalsConcrete_non_branch_simulate(self, inputs) ==
    LET unpacked == unpack_inputs(0, inputs)
    IN  IF unpacked.ok THEN Ok(<<>>) ELSE unpacked

RenameConcrete_non_branch_simulate(self, inputs) == single_cell_identity(1, inputs)

MoveConcrete_non_branch_simulate(self, inputs) == single_cell_identity(1, inputs)

\* The aggregate concrete type forwards simulation to the active variant.
MemConcrete_simulate(self, inputs) ==
    CASE self.value.struct = "StoreTempConcrete" -> StoreTempConcrete_non_branch_simulate(self.value, inputs)
      [] self.value.struct = "AlignTempsConcrete" -> AlignTempsConcrete_non_branch_simulate(self.value, inputs)
      [] self.value.struct = "StoreLocalConcrete" -> StoreLocalConcrete_non_branch_simulate(self.value, inputs)
      [] self.value.struct = "AllocLocalsConcrete" -> AllocLocalsConcrete_non_branch_simulate(self.value, inputs)
      [] self.value.struct = "RenameConcrete" -> RenameConcrete_non_branch_simulate(self.value, inputs)
      [] self.value.struct = "MoveConcrete" -> MoveConcrete_non_branch_simulate(self.value, inputs)

(***************************************************************************)
(* The declared types of a program.  The type-declaration phase fills the  *)
(* concrete-type map before any libfunc is specialized.                    *)
(***************************************************************************)
KeyArgLists == SeqsUpTo(GenericArgs, MaxKeyArgs)
Declaration(id, args, cid) == [id |-> id, args |-> args, cid |-> cid]

\* `type felt = felt; type NonZeroFelt = NonZero<felt>;`
ProgramDeclarations ==
    << Declaration("felt", <<>>, "felt"),
       Declaration("NonZero", <<Type("felt")>>, "NonZeroFelt") >>

RECURSIVE BuildMap(_)
BuildMap(decls) ==
    IF decls = {} THEN EmptyMap
    ELSE LET d == CHOOSE x \in decls : TRUE
         IN  Insert(BuildMap(decls \ {d}), <<d.id, d.args>>, d.cid)

(***************************************************************************)
(* State.  phase is the position of the compiler: "declaring" while the    *)
(* types of the program are declared, "statement" when a statement is to   *)
(* be specialized, "found" once its libfunc is found by id, "specialized"  *)
(* once it has a concrete libfunc, "typed" once its signature was read,    *)
(* "done" when the statement failed, was looked up or was simulated.       *)
(* hierarchy is the family list the hierarchy was built from,              *)
(* concrete_type_ids the concrete-type map and declared the declarations   *)
(* that filled it, generic the libfunc found by id, concrete the concrete  *)
(* libfunc, call the last call with its arguments and result.              *)
(***************************************************************************)
NoCall == [op |-> "none"]

Init ==
    /\ phase = "statement"
    /\ hierarchy \in Hierarchies
    /\ declared = {ProgramDeclarations[i] : i \in DOMAIN ProgramDeclarations}
    /\ concrete_type_ids = BuildMap(declared)
    /\ generic = None
    /\ concrete = None
    /\ call = NoCall

InitSimulation ==
    /\ phase = "statement"
    /\ hierarchy = MemExtension
    /\ declared \in {{ProgramDeclarations[i] : i \in 1..n} : n \in 0..Len(ProgramDeclarations)}
    /\ concrete_type_ids = BuildMap(declared)
    /\ generic = None
    /\ concrete = None
    /\ call = NoCall

InitContext ==
    /\ phase = "declaring"
    /\ hierarchy = MemExtension
    /\ declared = {}
    /\ concrete_type_ids = EmptyMap
    /\ generic = None
    /\ concrete = None
    /\ call = NoCall

\* The type-declaration phase registers a concrete type under a key that
\* has none yet.
DeclareType(id, args, cid) ==
    /\ phase = "declaring"
    /\ Cardinality(declared) < MaxDeclared
    /\ <<id, args>> \notin DOMAIN concrete_type_ids
    /\ concrete_type_ids' = Insert(concrete_type_ids, <<id, args>>, cid)
    /\ declared' = declared \cup {Declaration(id, args, cid)}
    /\ call' = [op |-> "insert", id |-> id, args |-> args, cid |-> cid]
    /\ UNCHANGED <<phase, hierarchy, generic, concrete>>

\* context.get_concrete_type(id, args)
GetConcreteType(id, args) ==
    /\ phase = "declaring"
    /\ phase' = "done"
    /\ call' = [op |-> "get_concrete_type", id |-> id, args |-> args,
                result |-> get_concrete_type(concrete_type_ids, id, args)]
    /\ UNCHANGED <<hierarchy, concrete_type_ids, declared, generic, concrete>>

\* context.get_wrapped_concrete_type(id, wrapped)
GetWrappedConcreteType(id, wrapped) ==
    /\ phase = "declaring"
    /\ phase' = "done"
    /\ call' = [op |-> "get_wrapped_concrete_type", id |-> id, wrapped |-> wrapped,
                result |-> get_wrapped_concrete_type(concrete_type_ids, id, wrapped)]
    /\ UNCHANGED <<hierarchy, concrete_type_ids, declared, generic, concrete>>

\* <hierarchy>::by_id(id)
ById(id) ==
    /\ phase = "statement"
    /\ generic' = Hierarchy_by_id(hierarchy, id)
    /\ call' = [op |-> "by_id", id |-> id, result |-> generic']
    /\ phase' = IF generic'.some THEN "found" ELSE "done"
    /\ UNCHANGED <<hierarchy, concrete_type_ids, declared, concrete>>

\* generic.specialize(context, args), on the libfunc found by id
Specialize(args) ==
    /\ phase = "found"
    /\ LET res == Hierarchy_specialize(generic.value, concrete_type_ids, args)
       IN  /\ call' = [op |-> "specialize", self |-> generic.value, args |-> args, result |-> res]
           /\ concrete' = IF res.ok THEN Some(res.value) ELSE concrete
           /\ phase' = IF res.ok THEN "specialized" ELSE "done"
    /\ UNCHANGED <<hierarchy, concrete_type_ids, declared, generic>>

\* <hierarchy>::specialize_by_id(context, id, args)
SpecializeById(id, args) ==
    /\ phase = "statement"
    /\ LET res == specialize_by_id(hierarchy, concrete_type_ids, id, args)
       IN  /\ call' = [op |-> "specialize_by_id", id |-> id, args |-> args, result |-> res]
           /\ concrete' = IF res.ok THEN Some(res.value) ELSE concrete
           /\ phase' = IF res.ok THEN "specialized" ELSE "done"
    /\ UNCHANGED <<hierarchy, concrete_type_ids, declared, generic>>

\* The type checker reads the signature of the concrete libfunc.
Signature ==
    /\ phase = "specialized"
    /\ phase' = "typed"
    /\ call' = [op |-> "signature", self |-> concrete.value,
                input_types |-> MemConcrete_input_types(concrete.value),
                output_types |-> MemConcrete_output_types(concrete.value),
                fallthrough |-> MemConcrete_fallthrough(concrete.value)]
    /\ UNCHANGED <<hierarchy, concrete_type_ids, declared, generic, concrete>>

\* The interpreter simulates the concrete libfunc on its input variables.
Simulate(inputs) ==
    /\ phase = "typed"
    /\ phase' = "done"
    /\ call' = [op |-> "simulate", self |-> concrete.value, inputs |-> inputs,
                result |-> MemConcrete_simulate(concrete.value, inputs)]
    /\ UNCHANGED <<hierarchy, concrete_type_ids, declared, generic, concrete>>

Next ==
    \/ \E id \in LibFuncIds : ById(id)
    \/ \E args \in ArgLists : Specialize(args)
    \/ \E id \in LibFuncIds, args \in ArgLists : SpecializeById(id, args)
    \/ Signature

NextSimulation ==
    \/ \E id \in LibFuncIds, args \in ArgLists : SpecializeById(id, args)
    \/ Signature
    \/ \E inputs \in InputLists : Simulate(inputs)

NextContext ==
    \/ \E id \in GenericTypeIds, args \in KeyArgLists, cid \in ConcreteTypeIds : DeclareType(id, args, cid)
    \/ \E id \in GenericTypeIds, args \in KeyArgLists : GetConcreteType(id, args)
    \/ \E id \in GenericTypeIds, wrapped \in ConcreteTypeIds : GetWrappedConcreteType(id, wrapped)

Spec == Init /\ [][Next]_vars

SpecSimulation == InitSimulation /\ [][NextSimulation]_vars

SpecContext == InitContext /\ [][NextContext]_vars

(***************************************************************************)
(* Properties.                                                             *)
(***************************************************************************)
Owners(h, id) == {i \in DOMAIN h : h[i].ID = id}
FirstOwner(h, id) == CHOOSE i \in Owners(h, id) : \A j \in Owners(h, id) : i <= j
NoArgsFamilies == {"AllocLocalsGeneric"}
SingleTypeFamilies == {"StoreTempGeneric", "AlignTempsGeneric", "StoreLocalGeneric", "RenameGeneric", "MoveGeneric"}
NoInputStructs == {"AlignTempsConcrete", "AllocLocalsConcrete"}
DeclaredTypes == {concrete_type_ids[k] : k \in DOMAIN concrete_type_ids}
DeclarationsOf(id, args) == {d \in declared : d.id = id /\ d.args = args}

\* C1: a zero-argument family's specialize fails with WrongNumberOfGenericArgs
\* on every non-empty argument list, and on the empty list returns the result
\* of the zero-argument specialize (the family's concrete libfunc).
C1_NoGenericArgsArity ==
    (call.op = "specialize" /\ call.self.value \in NoArgsFamilies) =>
        IF call.args # <<>>
            THEN call.result = Err(WrongNumberOfGenericArgs)
            ELSE /\ call.result.ok
                 /\ call.result.value.value = [struct |-> "AllocLocalsConcrete"]

C1_Witness ==
    /\ call.op = "specialize"
    /\ call.self.value \in NoArgsFamilies
    /\ call.args = <<Type("felt")>>
    /\ ~call.result.ok

\* C2: a single-type family's specialize fails with UnsupportedGenericArg on
\* the empty list and on a list of two types, and on a list of one type a
\* succeeds with a concrete libfunc that records a.
C2_SingleTypeArgs ==
    (call.op = "specialize" /\ call.self.value \in SingleTypeFamilies) =>
        /\ Len(call.args) = 0 => call.result = Err(UnsupportedGenericArg)
        /\ (Len(call.args) = 2 /\ call.args[1].kind = "Type" /\ call.args[2].kind = "Type")
                => call.result = Err(UnsupportedGenericArg)
        /\ (Len(call.args) = 1 /\ call.args[1].kind = "Type")
                => (call.result.ok /\ call.result.value.value.ty = call.args[1].ty)

C2_Witness ==
    /\ call.op = "specialize"
    /\ call.self.value \in SingleTypeFamilies
    /\ Len(call.args) = 2
    /\ call.args[1].kind = "Type" /\ call.args[2].kind = "Type"
    /\ call.args[1] # call.args[2]
    /\ call.result = Err(UnsupportedGenericArg)

\* C3 as stated: by_id returns a match exactly when exactly one family of
\* the hierarchy owns the id, and a concrete libfunc specialized from the
\* match carries the variant of that family.
C3_ExactlyOneOwner ==
    /\ call.op = "by_id" =>
        (call.result.some <=> Cardinality(Owners(hierarchy, call.id)) = 1)
    /\ (call.op = "specialize" /\ call.result.ok) =>
        call.result.value.variant = call.self.variant

\* C3 amended: by_id returns a match exactly when at least one family of the
\* hierarchy owns the id; the match is a family that owns the id, and a
\* concrete libfunc specialized from the match carries the variant of that
\* family.
C3_SomeOwner ==
    /\ call.op = "by_id" =>
        /\ call.result.some <=> Owners(hierarchy, call.id) # {}
        /\ call.result.some =>
            \E i \in Owners(hierarchy, call.id) :
                call.result.value = [variant |-> hierarchy[i].variant, value |-> hierarchy[i].type]
    /\ (call.op = "specialize" /\ call.result.ok) =>
        call.result.value.variant = call.self.variant

C3_Witness ==
    /\ call.op = "specialize"
    /\ call.result.ok
    /\ call.self.variant # "StoreTemp"
    /\ \E id \in LibFuncIds : Cardinality(Owners(hierarchy, id)) = 2

\* C10: by_id returns the first family, in declared order, that owns the id
\* (a later family that owns the same id is never returned), and returns
\* None only when no family owns it.
C10_FirstMatchWins ==
    call.op = "by_id" =>
        IF Owners(hierarchy, call.id) = {}
            THEN call.result = None
            ELSE call.result = Some([variant |-> hierarchy[FirstOwner(hierarchy, call.id)].variant,
                                     value |-> hierarchy[FirstOwner(hierarchy, call.id)].type])

C10_Witness ==
    /\ call.op = "by_id"
    /\ Cardinality(Owners(hierarchy, call.id)) = 2
    /\ call.result.some
    /\ call.result.value.variant = hierarchy[FirstOwner(hierarchy, call.id)].variant

\* C9: specialize_by_id fails with UnsupportedId, under the requested id,
\* exactly when no family owns the id; otherwise the owning family's error
\* comes back unchanged under the requested id, and its concrete libfunc
\* comes back unchanged.
C9_ErrorsCarryId ==
    call.op = "specialize_by_id" =>
        /\ (call.result = Err(LibFuncSpecialization(call.id, UnsupportedId)))
                <=> Owners(hierarchy, call.id) = {}
        /\ Owners(hierarchy, call.id) # {} =>
            LET family == hierarchy[FirstOwner(hierarchy, call.id)]
                inner == NamedLibFunc_specialize(family.type, concrete_type_ids, call.args)
            IN  IF inner.ok
                    THEN call.result = Ok([variant |-> family.variant, value |-> inner.value])
                    ELSE call.result = Err(LibFuncSpecialization(call.id, inner.error))

C9_Witness ==
    /\ call.op = "specialize_by_id"
    /\ Owners(hierarchy, call.id) # {}
    /\ call.result = Err(LibFuncSpecialization(call.id, WrongNumberOfGenericArgs))

\* C7: a concrete libfunc derived from NonBranchConcreteLibFunc reports one
\* output-type group, which is its flat output type list, and fallthrough
\* Some(0).
C7_NonBranchSignature ==
    call.op = "signature" =>
        /\ Len(call.output_types) = 1
        /\ call.output_types[1] = NonBranch_output_types(call.self.value)
        /\ call.fallthrough = Some(0)

C7_Witness ==
    /\ call.op = "signature"
    /\ call.self.value.struct = "AllocLocalsConcrete"
    /\ call.output_types = << <<>> >>

\* C8: store_temp specialized with [Type(a)], a a declared concrete type,
\* is a concrete libfunc with input_types() = [a] and output_types() =
\* [[a]]; its simulation accepts as many variables as it has input types
\* and returns as many as it has output types.
C8_StoreTempSignature ==
    /\ (/\ call.op = "specialize_by_id"
        /\ call.id = "store_temp"
        /\ Len(call.args) = 1
        /\ call.args[1].kind = "Type"
        /\ call.args[1].ty \in DeclaredTypes)
            => call.result = Ok([variant |-> "StoreTemp",
                                 value |-> [struct |-> "StoreTempConcrete", ty |-> call.args[1].ty]])
    /\ (call.op = "signature" /\ call.self.variant = "StoreTemp")
            => /\ call.input_types = <<call.self.value.ty>>
               /\ call.output_types = << <<call.self.value.ty>> >>
    /\ (call.op = "simulate" /\ call.self.variant = "StoreTemp" /\ call.result.ok)
            => /\ Len(call.inputs) = Len(MemConcrete_input_types(call.self))
               /\ Len(call.result.value) = Len(MemConcrete_output_types(call.self)[1])

C8_Witness ==
    /\ call.op = "signature"
    /\ call.self.variant = "StoreTemp"
    /\ call.self.value.ty \in DeclaredTypes
    /\ call.input_types = <<"felt">>

C5_NoInputs ==
    (call.op = "simulate" /\ call.self.value.struct \in NoInputStructs) =>
        IF call.inputs = <<>>
            THEN call.result = Ok(<<>>)
            ELSE call.result = Err(InputError)

C5_Witness ==
    /\ call.op = "simulate"
    /\ call.self.value.struct = "AlignTempsConcrete"
    /\ call.inputs # <<>>
    /\ call.result = Err(InputError)

\* C6: after any insertions, get_concrete_type returns the concrete id
\* registered under (id, args) when the key was inserted, fails with
\* TypeWasNotDeclared(id, args) when it never was, and leaves the map
\* unchanged.
C6_LookupAfterInserts ==
    /\ [](call.op = "get_concrete_type" =>
            IF DeclarationsOf(call.id, call.args) = {}
                THEN call.result = Err(TypeWasNotDeclared(call.id, call.args))
                ELSE \A d \in DeclarationsOf(call.id, call.args) : call.result = Ok(d.cid))
    /\ [][call'.op = "get_concrete_type" => concrete_type_ids' = concrete_type_ids]_vars

C6_Witness ==
    /\ call.op = "get_concrete_type"
    /\ call.result.ok
    /\ \E d \in declared : d.id = call.id /\ d.args # call.args

====
